---- MODULE Spec2Model ----
(***************************************************************************)
(* The taprio qdisc option codec of netlink-packet-route                   *)
(* (src/tc/qdiscs/taprio.rs): typed attribute values, their emission into  *)
(* a caller-supplied buffer and their decoding from a TLV byte stream.     *)
(*                                                                         *)
(* Bytes are the integers 0..255 and a buffer is a sequence of bytes.      *)
(* NativeEndian is little-endian, the byte order of the capture in         *)
(* tests/qdisc_taprio.rs.  A u8/u32/i64 value is kept as its base-65536    *)
(* digits, most significant first (1, 2 and 4 digits; the one digit of a   *)
(* u8 is below 256), so that every bit pattern of the wire is a value.     *)
(***************************************************************************)
EXTENDS Integers, Sequences, FiniteSets, TLC

VARIABLES opts, stack, nodes, pc, wire, mutated, panicked, decoded, reenc,
          ctor, walks

vars == <<opts, stack, nodes, pc, wire, mutated, panicked, decoded, reenc,
          ctor, walks>>

----------------------------------------------------------------------------
(* Bounds of the model *)

\* most options in the top-level option list
MaxOpts == 2
\* most attributes, over all nesting levels, in one option list
MaxNodes == 4
\* longest stream of which one byte is changed
MaxCorruptLen == 20
\* the longest buffer handed to the step-wise decode, in 4-byte words
MaxWords == 4

----------------------------------------------------------------------------
(* netlink_packet_utils::nla *)

NLA_F_NESTED == 32768
NLA_F_NET_BYTEORDER == 16384
NLA_HEADER_SIZE == 4
NLA_ALIGNTO == 4

\* kind & NLA_TYPE_MASK, NLA_TYPE_MASK = !(NLA_F_NET_BYTEORDER | NLA_F_NESTED)
TypeMasked(kind) == kind % NLA_F_NET_BYTEORDER

HasNestedFlag(kind) == (kind \div NLA_F_NESTED) % 2 = 1

HasByteorderFlag(kind) == (kind \div NLA_F_NET_BYTEORDER) % 2 = 1

\* nla_align!(len)
nla_align(len) == ((len + NLA_ALIGNTO - 1) \div NLA_ALIGNTO) * NLA_ALIGNTO

----------------------------------------------------------------------------
(* byteorder::NativeEndian, scalars as base-65536 digits *)

\* the two bytes of one 16-bit digit, low byte first
DigitBytes(d) == <<d % 256, d \div 256>>

\* the little-endian bytes of a value of Len(num) digits: last digit first
RECURSIVE LeBytes(_)
LeBytes(num) ==
    IF num = <<>> THEN <<>>
    ELSE DigitBytes(num[Len(num)]) \o LeBytes(SubSeq(num, 1, Len(num) - 1))

\* the value whose little-endian bytes are b (Len(b) even)
RECURSIVE LeDigits(_)
LeDigits(b) ==
    IF Len(b) < 2 THEN <<>>
    ELSE LeDigits(SubSeq(b, 3, Len(b))) \o <<b[1] + 256 * b[2]>>

\* NativeEndian::read_u16 of the two bytes at offset off (0-based)
read_u16(b, off) == b[off + 1] + 256 * b[off + 2]

\* a small number as a u32 and as an i64 (two's complement)
U32(n) == <<n \div 65536, n % 65536>>

I64(n) ==
    IF n >= 0 THEN <<0, 0, n \div 65536, n % 65536>>
    ELSE <<65535, 65535, 65535 - ((0 - n - 1) \div 65536),
           65535 - ((0 - n - 1) % 65536)>>

----------------------------------------------------------------------------
(* A buffer being written: buf, and panic once a write or a slice went     *)
(* out of range.  A callee sees the window [lo, hi) of the buffer.         *)

Buffer(panic, buf) == [panic |-> panic, buf |-> buf]

\* buffer[off .. off + Len(bytes)] of the window [lo, hi) := bytes
WriteIn(st, lo, hi, off, bytes) ==
    IF st.panic \/ lo + off + Len(bytes) > hi \/ hi > Len(st.buf)
    THEN Buffer(TRUE, st.buf)
    ELSE Buffer(FALSE,
                [i \in 1..Len(st.buf) |->
                    IF i > lo + off /\ i <= lo + off + Len(bytes)
                    THEN bytes[i - lo - off] ELSE st.buf[i]])

Zeros(n) == [i \in 1..n |-> 0]

----------------------------------------------------------------------------
(* Typed values.  Every attribute value of every level has the same shape: *)
(* tag (the variant), kind (Other: the raw kind of the DefaultNla), num    *)
(* (a scalar's digits), bytes (Other: the raw value), items (a container's *)
(* children), pm (Priomap: the TcPriomap).                                 *)

\* #[derive(Default)] TcPriomap
DefaultPriomap ==
    [num_tc |-> 0, prio_tc_map |-> Zeros(16), hw |-> 0,
     count |-> Zeros(16), offset |-> Zeros(16)]

Value(tag, kind, num, bytes, items, pm) ==
    [tag |-> tag, kind |-> kind, num |-> num, bytes |-> bytes,
     items |-> items, pm |-> pm]

Scalar(tag, num) == Value(tag, 0, num, <<>>, <<>>, DefaultPriomap)

Container(tag, items) == Value(tag, 0, <<>>, <<>>, items, DefaultPriomap)

Priomap(pm) == Value("Priomap", 0, <<>>, <<>>, <<>>, pm)

\* Other(DefaultNla { kind, value })
Other(kind, bytes) == Value("Other", kind, <<>>, bytes, <<>>, DefaultPriomap)

\* The nesting levels: TcQdiscTaprioOption, TaprioTcEntry,
\* TaprioScheduleEntry, TaprioScheduleEntryItem
Levels == {"opt", "tc", "sched", "item"}

\* the level of the children of a container variant
ChildLevel(tag) ==
    CASE tag = "Tc" -> "tc"
      [] tag = "Schedule" -> "sched"
      [] tag = "Entry" -> "item"

----------------------------------------------------------------------------
(* Kind codes *)

TCA_TAPRIO_ATTR_PRIOMAP == 1
TCA_TAPRIO_ATTR_SCHED_ENTRY_LIST == 2
TCA_TAPRIO_ATTR_SCHED_BASE_TIME == 3
TCA_TAPRIO_ATTR_SCHED_CLOCKID == 5
TCA_TAPRIO_ATTR_SCHED_CYCLE_TIME == 8
TCA_TAPRIO_ATTR_SCHED_CYCLE_TIME_EXTENSION == 9
TCA_TAPRIO_ATTR_FLAGS == 10
TCA_TAPRIO_ATTR_TXTIME_DELAY == 11
TCA_TAPRIO_ATTR_TC_ENTRY == 12

TCA_TAPRIO_TC_ENTRY_INDEX == 1
TCA_TAPRIO_TC_ENTRY_MAX_SDU == 2
TCA_TAPRIO_TC_ENTRY_FP == 3

TCA_TAPRIO_SCHED_ENTRY == 1

TCA_TAPRIO_SCHED_ENTRY_CMD == 2
TCA_TAPRIO_SCHED_ENTRY_GATE_MASK == 3
TCA_TAPRIO_SCHED_ENTRY_INTERVAL == 4

\* TcPriomap::BUF_LEN
BUF_LEN == 82

----------------------------------------------------------------------------
(* impl Nla: kind() *)

\* TcQdiscTaprioOption::kind with Tc missing NLA_F_NESTED
TcQdiscTaprioOption_kind_unflagged(self) ==
    CASE self.tag = "ClockId" -> TCA_TAPRIO_ATTR_SCHED_CLOCKID
      [] self.tag = "Flags" -> TCA_TAPRIO_ATTR_FLAGS
      [] self.tag = "Priomap" -> TCA_TAPRIO_ATTR_PRIOMAP
      [] self.tag = "TxtimeDelay" -> TCA_TAPRIO_ATTR_TXTIME_DELAY
      [] self.tag = "Basetime" -> TCA_TAPRIO_ATTR_SCHED_BASE_TIME
      [] self.tag = "Cycletime" -> TCA_TAPRIO_ATTR_SCHED_CYCLE_TIME
      [] self.tag = "CycletimeExtension" ->
            TCA_TAPRIO_ATTR_SCHED_CYCLE_TIME_EXTENSION
      [] self.tag = "Tc" -> TCA_TAPRIO_ATTR_TC_ENTRY
      [] self.tag = "Schedule" ->
            TCA_TAPRIO_ATTR_SCHED_ENTRY_LIST + NLA_F_NESTED
      [] self.tag = "Other" -> self.kind

TcQdiscTaprioOption_kind(self) ==
    CASE self.tag = "ClockId" -> TCA_TAPRIO_ATTR_SCHED_CLOCKID
      [] self.tag = "Flags" -> TCA_TAPRIO_ATTR_FLAGS
      [] self.tag = "Priomap" -> TCA_TAPRIO_ATTR_PRIOMAP
      [] self.tag = "TxtimeDelay" -> TCA_TAPRIO_ATTR_TXTIME_DELAY
      [] self.tag = "Basetime" -> TCA_TAPRIO_ATTR_SCHED_BASE_TIME
      [] self.tag = "Cycletime" -> TCA_TAPRIO_ATTR_SCHED_CYCLE_TIME
      [] self.tag = "CycletimeExtension" ->
            TCA_TAPRIO_ATTR_SCHED_CYCLE_TIME_EXTENSION
      [] self.tag = "Tc" -> TCA_TAPRIO_ATTR_TC_ENTRY + NLA_F_NESTED
      [] self.tag = "Schedule" ->
            TCA_TAPRIO_ATTR_SCHED_ENTRY_LIST + NLA_F_NESTED
      [] self.tag = "Other" -> self.kind

TaprioTcEntry_kind(self) ==
    CASE self.tag = "Index" -> TCA_TAPRIO_TC_ENTRY_INDEX
      [] self.tag = "MaxSdu" -> TCA_TAPRIO_TC_ENTRY_MAX_SDU
      [] self.tag = "Fp" -> TCA_TAPRIO_TC_ENTRY_FP
      [] self.tag = "Other" -> self.kind

TaprioScheduleEntry_kind(self) ==
    CASE self.tag = "Entry" -> TCA_TAPRIO_SCHED_ENTRY
      [] self.tag = "Other" -> self.kind

TaprioScheduleEntryItem_kind(self) ==
    CASE self.tag = "Cmd" -> TCA_TAPRIO_SCHED_ENTRY_CMD
      [] self.tag = "GateMask" -> TCA_TAPRIO_SCHED_ENTRY_GATE_MASK
      [] self.tag = "Interval" -> TCA_TAPRIO_SCHED_ENTRY_INTERVAL
      [] self.tag = "Other" -> self.kind

\* T::kind() of the level's type
Nla_kind(lvl, self) ==
    CASE lvl = "opt" -> TcQdiscTaprioOption_kind(self)
      [] lvl = "tc" -> TaprioTcEntry_kind(self)
      [] lvl = "sched" -> TaprioScheduleEntry_kind(self)
      [] lvl = "item" -> TaprioScheduleEntryItem_kind(self)

----------------------------------------------------------------------------
(* impl Nla: value_len(), and the generic buffer_len() *)

RECURSIVE Nla_value_len(_, _)

\* impl<T: Nla> Emitable for T: buffer_len
Nla_buffer_len(lvl, self) ==
    LET vl == Nla_value_len(lvl, self)
        padding == (4 - (vl % 4)) % 4
    IN vl + NLA_HEADER_SIZE + padding

\* impl<T: Nla> Emitable for &[T]: buffer_len
RECURSIVE Slice_buffer_len(_, _)
Slice_buffer_len(lvl, nlas) ==
    IF nlas = <<>> THEN 0
    ELSE Nla_buffer_len(lvl, Head(nlas)) + Slice_buffer_len(lvl, Tail(nlas))

\* DefaultNla::value_len
DefaultNla_value_len(self) == Len(self.bytes)

\* TcPriomap::buffer_len
TcPriomap_buffer_len == BUF_LEN

TcQdiscTaprioOption_value_len(self) ==
    CASE self.tag \in {"ClockId", "Flags", "TxtimeDelay"} -> 4
      [] self.tag \in {"Basetime", "Cycletime", "CycletimeExtension"} -> 8
      [] self.tag = "Priomap" -> TcPriomap_buffer_len
      [] self.tag = "Tc" -> Slice_buffer_len("tc", self.items)
      [] self.tag = "Schedule" -> Slice_buffer_len("sched", self.items)
      [] self.tag = "Other" -> DefaultNla_value_len(self)

TaprioTcEntry_value_len(self) ==
    CASE self.tag \in {"Index", "MaxSdu", "Fp"} -> 4
      [] self.tag = "Other" -> DefaultNla_value_len(self)

TaprioScheduleEntry_value_len(self) ==
    CASE self.tag = "Entry" -> Slice_buffer_len("item", self.items)
      [] self.tag = "Other" -> DefaultNla_value_len(self)

\* TaprioScheduleEntryItem::value_len with Cmd counted as a 4-byte scalar
TaprioScheduleEntryItem_value_len_cmd4(self) ==
    CASE self.tag \in {"Cmd", "GateMask", "Interval"} -> 4
      [] self.tag = "Other" -> DefaultNla_value_len(self)

TaprioScheduleEntryItem_value_len(self) ==
    CASE self.tag = "Cmd" -> 1
      [] self.tag \in {"GateMask", "Interval"} -> 4
      [] self.tag = "Other" -> DefaultNla_value_len(self)

\* T::value_len() of the level's type
Nla_value_len(lvl, self) ==
    CASE lvl = "opt" -> TcQdiscTaprioOption_value_len(self)
      [] lvl = "tc" -> TaprioTcEntry_value_len(self)
      [] lvl = "sched" -> TaprioScheduleEntry_value_len(self)
      [] lvl = "item" -> TaprioScheduleEntryItem_value_len(self)

----------------------------------------------------------------------------
(* impl Nla: emit_value(), and the generic emit().  Each takes the buffer  *)
(* being written and the window [lo, hi) the callee was handed.            *)

RECURSIVE Nla_emit_value(_, _, _, _, _)

\* the two bytes of a u16, NativeEndian::write_u16
U16Bytes(n) == DigitBytes(n % 65536)

\* emit that leaves the padding bytes as they were
Nla_emit_nopad(lvl, self, st, lo, hi) ==
    LET kind == Nla_kind(lvl, self)
        vl == Nla_value_len(lvl, self)
        flags == (IF HasByteorderFlag(kind) THEN NLA_F_NET_BYTEORDER ELSE 0)
                 + (IF HasNestedFlag(kind) THEN NLA_F_NESTED ELSE 0)
        s1 == WriteIn(st, lo, hi, 2, U16Bytes(TypeMasked(kind) + flags))
        length == (vl + NLA_HEADER_SIZE) % 65536
        s2 == WriteIn(s1, lo, hi, 0, U16Bytes(length))
    IN IF s2.panic \/ length < NLA_HEADER_SIZE \/ lo + length > hi
       THEN Buffer(TRUE, s2.buf)
       ELSE Nla_emit_value(lvl, self, s2, lo + NLA_HEADER_SIZE, lo + length)

\* impl<T: Nla> Emitable for T: emit
Nla_emit(lvl, self, st, lo, hi) ==
    LET kind == Nla_kind(lvl, self)
        vl == Nla_value_len(lvl, self)
        \* set_kind(kind), then the two flags kind() carries are set again
        flags == (IF HasByteorderFlag(kind) THEN NLA_F_NET_BYTEORDER ELSE 0)
                 + (IF HasNestedFlag(kind) THEN NLA_F_NESTED ELSE 0)
        s1 == WriteIn(st, lo, hi, 2, U16Bytes(TypeMasked(kind) + flags))
        \* set_length(value_len as u16 + NLA_HEADER_SIZE): padding excluded
        length == (vl + NLA_HEADER_SIZE) % 65536
        s2 == WriteIn(s1, lo, hi, 0, U16Bytes(length))
        \* emit_value(buffer.value_mut()): the slice 4 .. length
        s3 == IF s2.panic \/ length < NLA_HEADER_SIZE \/ lo + length > hi
              THEN Buffer(TRUE, s2.buf)
              ELSE Nla_emit_value(lvl, self, s2, lo + NLA_HEADER_SIZE,
                                  lo + length)
        padding == nla_align(vl) - vl
    IN WriteIn(s3, lo, hi, NLA_HEADER_SIZE + vl, Zeros(padding))

\* impl<T: Nla> Emitable for &[T]: emit
RECURSIVE Slice_emit(_, _, _, _, _)
Slice_emit(lvl, nlas, st, lo, hi) ==
    IF nlas = <<>> THEN st
    ELSE LET attr_len == Nla_buffer_len(lvl, Head(nlas))
             end == lo + attr_len
             \* &mut buffer[start..end]
             s1 == IF st.panic \/ end > hi THEN Buffer(TRUE, st.buf)
                   ELSE Nla_emit(lvl, Head(nlas), st, lo, end)
         IN Slice_emit(lvl, Tail(nlas), s1, end, hi)

\* write_u32, write_i64 in network byte order: most significant byte first
RECURSIVE BeBytes(_)
BeBytes(num) ==
    IF num = <<>> THEN <<>>
    ELSE <<Head(num) \div 256, Head(num) % 256>> \o BeBytes(Tail(num))

write_num_be(st, lo, hi, num) == WriteIn(st, lo, hi, 0, BeBytes(num))

\* NativeEndian::write_u32, write_i64: the first 4 or 8 bytes of the slice
write_num(st, lo, hi, num) == WriteIn(st, lo, hi, 0, LeBytes(num))

\* DefaultNla::emit_value: buffer.copy_from_slice(value), equal lengths only
DefaultNla_emit_value(self, st, lo, hi) ==
    IF hi - lo # Len(self.bytes) THEN Buffer(TRUE, st.buf)
    ELSE WriteIn(st, lo, hi, 0, self.bytes)

\* the 16 values of count or offset, two bytes each
RECURSIVE U16ArrayBytes(_)
U16ArrayBytes(a) ==
    IF a = <<>> THEN <<>> ELSE U16Bytes(Head(a)) \o U16ArrayBytes(Tail(a))

\* TcPriomap::emit with hw written one byte early
TcPriomap_emit_hw16(pm, st, lo, hi) ==
    LET s1 == WriteIn(st, lo, hi, 0, <<pm.num_tc>>)
        s2 == WriteIn(s1, lo, hi, 1, pm.prio_tc_map)
        s3 == WriteIn(s2, lo, hi, 16, <<pm.hw>>)
        s4 == WriteIn(s3, lo, hi, 18, U16ArrayBytes(pm.count))
    IN WriteIn(s4, lo, hi, 50, U16ArrayBytes(pm.offset))

\* TcPriomap::emit through TcPriomapBuffer's field offsets
TcPriomap_emit(pm, st, lo, hi) ==
    LET s1 == WriteIn(st, lo, hi, 0, <<pm.num_tc>>)
        s2 == WriteIn(s1, lo, hi, 1, pm.prio_tc_map)
        s3 == WriteIn(s2, lo, hi, 17, <<pm.hw>>)
        s4 == WriteIn(s3, lo, hi, 18, U16ArrayBytes(pm.count))
    IN WriteIn(s4, lo, hi, 50, U16ArrayBytes(pm.offset))

TcQdiscTaprioOption_emit_value(self, st, lo, hi) ==
    CASE self.tag \in {"ClockId", "Flags", "TxtimeDelay"} ->
            write_num(st, lo, hi, self.num)
      [] self.tag \in {"Basetime", "Cycletime", "CycletimeExtension"} ->
            write_num(st, lo, hi, self.num)
      [] self.tag = "Priomap" -> TcPriomap_emit(self.pm, st, lo, hi)
      [] self.tag = "Tc" -> Slice_emit("tc", self.items, st, lo, hi)
      [] self.tag = "Schedule" -> Slice_emit("sched", self.items, st, lo, hi)
      [] self.tag = "Other" -> DefaultNla_emit_value(self, st, lo, hi)

TaprioTcEntry_emit_value(self, st, lo, hi) ==
    CASE self.tag \in {"Index", "MaxSdu", "Fp"} ->
            write_num(st, lo, hi, self.num)
      [] self.tag = "Other" -> DefaultNla_emit_value(self, st, lo, hi)

TaprioScheduleEntry_emit_value(self, st, lo, hi) ==
    CASE self.tag = "Entry" -> Slice_emit("item", self.items, st, lo, hi)
      [] self.tag = "Other" -> DefaultNla_emit_value(self, st, lo, hi)

TaprioScheduleEntryItem_emit_value(self, st, lo, hi) ==
    CASE self.tag = "Cmd" -> WriteIn(st, lo, hi, 0, <<self.num[1]>>)
      [] self.tag \in {"GateMask", "Interval"} ->
            write_num(st, lo, hi, self.num)
      [] self.tag = "Other" -> DefaultNla_emit_value(self, st, lo, hi)

\* T::emit_value() of the level's type
Nla_emit_value(lvl, self, st, lo, hi) ==
    CASE lvl = "opt" -> TcQdiscTaprioOption_emit_value(self, st, lo, hi)
      [] lvl = "tc" -> TaprioTcEntry_emit_value(self, st, lo, hi)
      [] lvl = "sched" -> TaprioScheduleEntry_emit_value(self, st, lo, hi)
      [] lvl = "item" -> TaprioScheduleEntryItem_emit_value(self, st, lo, hi)

----------------------------------------------------------------------------
(* Decoding.  A result is [ok, val]: Ok(val) or Err(DecodeError).          *)

Ok(val) == [ok |-> TRUE, val |-> val]

\* Err(DecodeError) where one attribute value was expected
Err == [ok |-> FALSE,
        val |-> Value("DecodeError", 0, <<>>, <<>>, <<>>, DefaultPriomap)]

\* Err(DecodeError) where a list was expected
ErrList == [ok |-> FALSE, val |-> <<>>]

\* NlaBuffer::length: the u16 at 0..2
NlaBuffer_length(buf) == read_u16(buf, 0)

\* NlaBuffer::kind that masks the byte-order flag only
NlaBuffer_kind_nested(buf) ==
    (read_u16(buf, 2) % NLA_F_NET_BYTEORDER)
    + (IF HasNestedFlag(read_u16(buf, 2)) THEN NLA_F_NESTED ELSE 0)

\* NlaBuffer::kind: the u16 at 2..4 & NLA_TYPE_MASK
NlaBuffer_kind(buf) == TypeMasked(read_u16(buf, 2))

\* NlaBuffer::nested_flag, network_byte_order_flag
NlaBuffer_nested_flag(buf) == HasNestedFlag(read_u16(buf, 2))

NlaBuffer_network_byte_order_flag(buf) == HasByteorderFlag(read_u16(buf, 2))

\* NlaBuffer::value: the bytes 4 .. length
NlaBuffer_value(buf) == SubSeq(buf, NLA_HEADER_SIZE + 1, NlaBuffer_length(buf))

\* new_checked without the check that the declared length covers the header
NlaBuffer_new_checked_nomin(buf) ==
    /\ Len(buf) >= NLA_HEADER_SIZE
    /\ Len(buf) >= NlaBuffer_length(buf)

\* NlaBuffer::new_checked / check_buffer_length
NlaBuffer_new_checked(buf) ==
    /\ Len(buf) >= NLA_HEADER_SIZE
    /\ Len(buf) >= NlaBuffer_length(buf)
    /\ NlaBuffer_length(buf) >= NLA_HEADER_SIZE

\* NlasIterator: the items next() yields from position on, each Ok(the
\* buffer from the record's start) or, once and last, Err
RECURSIVE NlasIterator_next(_, _)

\* next() that ends the iteration at a malformed record without an Err item
NlasIterator_next_lenient(buffer, position) ==
    IF position >= Len(buffer) THEN <<>>
    ELSE LET rest == SubSeq(buffer, position + 1, Len(buffer))
         IN IF NlaBuffer_new_checked(rest)
            THEN <<[ok |-> TRUE, buf |-> rest]>>
                 \o NlasIterator_next(buffer,
                        position + nla_align(NlaBuffer_length(rest)))
            ELSE <<>>

NlasIterator_next(buffer, position) ==
    IF position >= Len(buffer) THEN <<>>
    ELSE LET rest == SubSeq(buffer, position + 1, Len(buffer))
         IN IF NlaBuffer_new_checked(rest)
            THEN <<[ok |-> TRUE, buf |-> rest]>>
                 \o NlasIterator_next(buffer,
                        position + nla_align(NlaBuffer_length(rest)))
            ELSE <<[ok |-> FALSE, buf |-> rest]>>

\* NlasIterator::new(payload)
NlasIterator(payload) == NlasIterator_next(payload, 0)

\* parse_u8 that only rejects an empty payload
parse_u8_atleast(payload) ==
    IF Len(payload) < 1 THEN Err ELSE Ok(<<payload[1]>>)

\* parsers::parse_u8, parse_u32, parse_i64: the exact width or an error
parse_u8(payload) ==
    IF Len(payload) # 1 THEN Err ELSE Ok(<<payload[1]>>)

parse_u32(payload) ==
    IF Len(payload) # 4 THEN Err ELSE Ok(LeDigits(payload))

parse_i64(payload) ==
    IF Len(payload) # 8 THEN Err ELSE Ok(LeDigits(payload))

\* DefaultNla::parse keeping the masked kind only
DefaultNla_parse_noflags(buf) ==
    Ok(Other(NlaBuffer_kind(buf), NlaBuffer_value(buf)))

\* DefaultNla::parse: the kind with its two flag bits, the value bytes
DefaultNla_parse(buf) ==
    LET kind == NlaBuffer_kind(buf)
               + (IF NlaBuffer_network_byte_order_flag(buf)
                  THEN NLA_F_NET_BYTEORDER ELSE 0)
               + (IF NlaBuffer_nested_flag(buf) THEN NLA_F_NESTED ELSE 0)
    IN Ok(Other(kind, NlaBuffer_value(buf)))

\* a length check that also rejects a longer buffer
TcPriomapBuffer_new_checked_exact(payload) == Len(payload) = BUF_LEN

\* buffer!(TcPriomapBuffer(BUF_LEN)): new_checked
TcPriomapBuffer_new_checked(payload) == Len(payload) >= BUF_LEN

\* the u16 values of the byte range lo .. hi (0-based, hi excluded)
U16Array(b, lo, hi) == [i \in 1..((hi - lo) \div 2) |-> read_u16(b, lo + 2 * (i - 1))]

\* TcPriomap::parse with count and offset read from each other's range
TcPriomap_parse_swapped(b) ==
    [num_tc |-> b[1],
     prio_tc_map |-> SubSeq(b, 2, 17),
     hw |-> b[18],
     count |-> U16Array(b, 50, 82),
     offset |-> U16Array(b, 18, 50)]

\* TcPriomap::parse through TcPriomapBuffer's field offsets
TcPriomap_parse(b) ==
    [num_tc |-> b[1],
     prio_tc_map |-> SubSeq(b, 2, 17),
     hw |-> b[18],
     count |-> U16Array(b, 18, 50),
     offset |-> U16Array(b, 50, 82)]

\* a scalar variant from a parse_* result
ScalarResult(tag, r) == IF r.ok THEN Ok(Scalar(tag, r.val)) ELSE Err

RECURSIVE Nla_parse(_, _)

\* for nla in NlasIterator::new(payload) { v.push(T::parse(&nla?)?) }
RECURSIVE ParseNlas(_, _)

\* the walk with each parsed value put in front of the ones before it
ParseNlas_reversed(lvl, nlas) ==
    IF nlas = <<>> THEN Ok(<<>>)
    ELSE IF ~Head(nlas).ok THEN ErrList
    ELSE LET parsed == Nla_parse(lvl, Head(nlas).buf)
         IN IF ~parsed.ok THEN ErrList
            ELSE LET rest == ParseNlas(lvl, Tail(nlas))
                 IN IF rest.ok THEN Ok(rest.val \o <<parsed.val>>)
                    ELSE ErrList

ParseNlas(lvl, nlas) ==
    IF nlas = <<>> THEN Ok(<<>>)
    ELSE IF ~Head(nlas).ok THEN ErrList
    ELSE LET parsed == Nla_parse(lvl, Head(nlas).buf)
         IN IF ~parsed.ok THEN ErrList
            ELSE LET rest == ParseNlas(lvl, Tail(nlas))
                 IN IF rest.ok THEN Ok(<<parsed.val>> \o rest.val)
                    ELSE ErrList

\* a container variant that a Tc is only given with three sub-attributes
ContainerResult_three(tag, payload) ==
    LET v == ParseNlas(ChildLevel(tag), NlasIterator(payload))
    IN IF v.ok /\ (tag = "Tc" => Len(v.val) = 3)
       THEN Ok(Container(tag, v.val)) ELSE Err

\* a container variant from the walk of its payload
ContainerResult(tag, payload) ==
    LET v == ParseNlas(ChildLevel(tag), NlasIterator(payload))
    IN IF v.ok THEN Ok(Container(tag, v.val)) ELSE Err

TcQdiscTaprioOption_parse(buf) ==
    LET payload == NlaBuffer_value(buf)
        kind == NlaBuffer_kind(buf)
    IN CASE kind = TCA_TAPRIO_ATTR_SCHED_CLOCKID ->
              ScalarResult("ClockId", parse_u32(payload))
         [] kind = TCA_TAPRIO_ATTR_FLAGS ->
              ScalarResult("Flags", parse_u32(payload))
         [] kind = TCA_TAPRIO_ATTR_PRIOMAP ->
              IF TcPriomapBuffer_new_checked(payload)
              THEN Ok(Priomap(TcPriomap_parse(payload))) ELSE Err
         [] kind = TCA_TAPRIO_ATTR_TXTIME_DELAY ->
              ScalarResult("TxtimeDelay", parse_u32(payload))
         [] kind = TCA_TAPRIO_ATTR_SCHED_BASE_TIME ->
              ScalarResult("Basetime", parse_i64(payload))
         [] kind = TCA_TAPRIO_ATTR_SCHED_CYCLE_TIME ->
              ScalarResult("Cycletime", parse_i64(payload))
         [] kind = TCA_TAPRIO_ATTR_SCHED_CYCLE_TIME_EXTENSION ->
              ScalarResult("CycletimeExtension", parse_i64(payload))
         [] kind = TCA_TAPRIO_ATTR_TC_ENTRY -> ContainerResult("Tc", payload)
         [] kind = TCA_TAPRIO_ATTR_SCHED_ENTRY_LIST ->
              ContainerResult("Schedule", payload)
         [] OTHER -> DefaultNla_parse(buf)

\* TaprioTcEntry::parse with an unrecognized kind an error
TaprioTcEntry_parse_strict(buf) ==
    LET payload == NlaBuffer_value(buf)
        kind == NlaBuffer_kind(buf)
    IN CASE kind = TCA_TAPRIO_TC_ENTRY_INDEX ->
              ScalarResult("Index", parse_u32(payload))
         [] kind = TCA_TAPRIO_TC_ENTRY_MAX_SDU ->
              ScalarResult("MaxSdu", parse_u32(payload))
         [] kind = TCA_TAPRIO_TC_ENTRY_FP ->
              ScalarResult("Fp", parse_u32(payload))
         [] OTHER -> Err

\* TaprioTcEntry::parse that takes an Fp only with the values of fp_from_char
TaprioTcEntry_parse_fpchecked(buf) ==
    LET payload == NlaBuffer_value(buf)
        kind == NlaBuffer_kind(buf)
    IN CASE kind = TCA_TAPRIO_TC_ENTRY_INDEX ->
              ScalarResult("Index", parse_u32(payload))
         [] kind = TCA_TAPRIO_TC_ENTRY_MAX_SDU ->
              ScalarResult("MaxSdu", parse_u32(payload))
         [] kind = TCA_TAPRIO_TC_ENTRY_FP ->
              IF parse_u32(payload).ok
                 /\ parse_u32(payload).val \in {U32(1), U32(2)}
              THEN ScalarResult("Fp", parse_u32(payload)) ELSE Err
         [] OTHER -> DefaultNla_parse(buf)

TaprioTcEntry_parse(buf) ==
    LET payload == NlaBuffer_value(buf)
        kind == NlaBuffer_kind(buf)
    IN CASE kind = TCA_TAPRIO_TC_ENTRY_INDEX ->
              ScalarResult("Index", parse_u32(payload))
         [] kind = TCA_TAPRIO_TC_ENTRY_MAX_SDU ->
              ScalarResult("MaxSdu", parse_u32(payload))
         [] kind = TCA_TAPRIO_TC_ENTRY_FP ->
              ScalarResult("Fp", parse_u32(payload))
         [] OTHER -> DefaultNla_parse(buf)

TaprioScheduleEntry_parse(buf) ==
    LET payload == NlaBuffer_value(buf)
        kind == NlaBuffer_kind(buf)
    IN CASE kind = TCA_TAPRIO_SCHED_ENTRY -> ContainerResult("Entry", payload)
         [] OTHER -> DefaultNla_parse(buf)

\* TaprioScheduleEntryItem::parse matching Cmd on the Schedule level's code
TaprioScheduleEntryItem_parse_entrycode(buf) ==
    LET payload == NlaBuffer_value(buf)
        kind == NlaBuffer_kind(buf)
    IN CASE kind = TCA_TAPRIO_SCHED_ENTRY ->
              ScalarResult("Cmd", parse_u8(payload))
         [] kind = TCA_TAPRIO_SCHED_ENTRY_GATE_MASK ->
              ScalarResult("GateMask", parse_u32(payload))
         [] kind = TCA_TAPRIO_SCHED_ENTRY_INTERVAL ->
              ScalarResult("Interval", parse_u32(payload))
         [] OTHER -> DefaultNla_parse(buf)

TaprioScheduleEntryItem_parse(buf) ==
    LET payload == NlaBuffer_value(buf)
        kind == NlaBuffer_kind(buf)
    IN CASE kind = TCA_TAPRIO_SCHED_ENTRY_CMD ->
              ScalarResult("Cmd", parse_u8(payload))
         [] kind = TCA_TAPRIO_SCHED_ENTRY_GATE_MASK ->
              ScalarResult("GateMask", parse_u32(payload))
         [] kind = TCA_TAPRIO_SCHED_ENTRY_INTERVAL ->
              ScalarResult("Interval", parse_u32(payload))
         [] OTHER -> DefaultNla_parse(buf)

\* T::parse() of the level's type
Nla_parse(lvl, buf) ==
    CASE lvl = "opt" -> TcQdiscTaprioOption_parse(buf)
      [] lvl = "tc" -> TaprioTcEntry_parse(buf)
      [] lvl = "sched" -> TaprioScheduleEntry_parse(buf)
      [] lvl = "item" -> TaprioScheduleEntryItem_parse(buf)

----------------------------------------------------------------------------
(* The constructors from a character *)

\* Err(EncodeError)
EncodeErr == [ok |-> FALSE,
              val |-> Value("EncodeError", 0, <<>>, <<>>, <<>>, DefaultPriomap)]

\* fp_from_char that takes either case of the letter
fp_from_char_anycase(c) ==
    IF c \in {"E", "e"} THEN Ok(Scalar("Fp", U32(1)))
    ELSE IF c \in {"P", "p"} THEN Ok(Scalar("Fp", U32(2)))
    ELSE EncodeErr

\* TaprioTcEntry::fp_from_char
fp_from_char(c) ==
    IF c = "E" THEN Ok(Scalar("Fp", U32(1)))
    ELSE IF c = "P" THEN Ok(Scalar("Fp", U32(2)))
    ELSE EncodeErr

\* TaprioScheduleEntryItem::cmd_from_char
cmd_from_char(c) ==
    IF c = "S" THEN Ok(Scalar("Cmd", <<0>>))
    ELSE EncodeErr

----------------------------------------------------------------------------
(* Inputs: the attribute values a caller builds lists from *)

\* the TcPriomap of tests/qdisc_taprio.rs
PriomapCaptured ==
    [num_tc |-> 3,
     prio_tc_map |-> <<2, 2, 1, 0, 2, 2, 2, 2, 2, 2, 2, 2, 2, 2, 2, 2>>,
     hw |-> 0,
     count |-> <<1, 1, 1, 0, 0, 0, 0, 0, 0, 0, 0, 0, 0, 0, 0, 0>>,
     offset |-> <<0, 1, 2, 0, 0, 0, 0, 0, 0, 0, 0, 0, 0, 0, 0, 0>>]

\* a TcPriomap whose 82 bytes are pairwise different from their neighbours
PriomapMixed ==
    [num_tc |-> 16,
     prio_tc_map |-> [i \in 1..16 |-> 16 - i],
     hw |-> 1,
     count |-> [i \in 1..16 |-> 256 * i + 100 + i],
     offset |-> [i \in 1..16 |-> 256 * (100 + i) + 200 + i]]

\* n bytes counting up from first
Run(first, n) == [i \in 1..n |-> (first + i - 1) % 256]

\* the leaves (scalars, Priomap, Other) of each level
Leaves(lvl) ==
    CASE lvl = "opt" ->
            { Scalar("ClockId", U32(11)),
              Scalar("Flags", <<258, 772>>),
              Scalar("TxtimeDelay", U32(500000)),
              Scalar("Basetime", I64(1000000000)),
              Scalar("Cycletime", I64(0 - 2)),
              Scalar("CycletimeExtension", <<258, 772, 1286, 1800>>),
              Priomap(PriomapCaptured),
              Priomap(PriomapMixed),
              \* kinds no top-level variant has
              Other(4, <<>>),
              Other(7 + NLA_F_NESTED, Run(1, 3)),
              \* kinds of top-level variants
              Other(TCA_TAPRIO_ATTR_TXTIME_DELAY + NLA_F_NESTED, Run(1, 4)),
              Other(TCA_TAPRIO_ATTR_PRIOMAP, Run(1, 81)),
              Other(TCA_TAPRIO_ATTR_PRIOMAP, Run(1, 84)),
              Other(TCA_TAPRIO_ATTR_TC_ENTRY, <<>>),
              Other(TCA_TAPRIO_ATTR_TC_ENTRY + NLA_F_NESTED, <<3, 0, 1, 0>>),
              Other(TCA_TAPRIO_ATTR_SCHED_ENTRY_LIST + NLA_F_NESTED,
                    <<8, 0, 1, 0, 5, 0, 2, 0>>) }
      [] lvl = "tc" ->
            { Scalar("Index", U32(1)),
              Scalar("MaxSdu", U32(300)),
              Scalar("Fp", U32(2)),
              Other(TCA_TAPRIO_ATTR_TC_ENTRY, <<>>) }
      [] lvl = "sched" ->
            { Other(TCA_TAPRIO_ATTR_SCHED_ENTRY_LIST, Run(1, 1)),
              Other(TCA_TAPRIO_SCHED_ENTRY + NLA_F_NESTED, <<>>) }
      [] lvl = "item" ->
            { Scalar("Cmd", <<0>>),
              Scalar("GateMask", U32(3)),
              Scalar("Interval", U32(300000)),
              Other(TCA_TAPRIO_SCHED_ENTRY, <<>>) }

\* the container variants of each level
Containers(lvl) ==
    CASE lvl = "opt" -> {"Tc", "Schedule"}
      [] lvl = "sched" -> {"Entry"}
      [] OTHER -> {}

\* the characters a caller hands to fp_from_char and cmd_from_char
Chars == {"E", "P", "S", "e", "p", "s", "R", "H", "0", " "}

\* ctor while no constructor result is held
NoCall == [fn |-> "", c |-> "", res |-> EncodeErr]

\* what a byte b of an emitted stream may arrive as
CorruptBytes(b) == {0, 255, (b + 1) % 256, (b + 255) % 256}

\* a byte of a fresh buffer that nothing has written yet
Unwritten == 0 - 1

----------------------------------------------------------------------------
(* The state machine: a caller builds an option list (opts; stack holds    *)
(* the containers still open), emits it into a buffer of buffer_len bytes  *)
(* (wire), the stream may be corrupted on the way, is decoded (decoded),   *)
(* and the decoded list is emitted again (reenc).                          *)

\* the level of the list an attribute would be added to now
CurLevel == IF stack = <<>> THEN "opt" ELSE ChildLevel(stack[Len(stack)].tag)

\* append value v to the innermost open list
Push(v) ==
    IF stack = <<>>
    THEN /\ opts' = Append(opts, v)
         /\ UNCHANGED stack
    ELSE /\ stack' = [stack EXCEPT ![Len(stack)].items = Append(@, v)]
         /\ UNCHANGED opts

Room == /\ nodes < MaxNodes
        /\ stack = <<>> => Len(opts) < MaxOpts

Init ==
    /\ opts = <<>>
    /\ stack = <<>>
    /\ nodes = 0
    /\ pc = "build"
    /\ wire = <<>>
    /\ mutated = FALSE
    /\ panicked = FALSE
    /\ decoded = ErrList
    /\ reenc = <<>>
    /\ ctor = NoCall
    /\ walks = <<>>

\* the caller adds a scalar, a Priomap or an Other to the innermost list
AddLeaf ==
    /\ pc = "build"
    /\ Room
    /\ \E v \in Leaves(CurLevel) : Push(v)
    /\ nodes' = nodes + 1
    /\ UNCHANGED <<pc, wire, mutated, panicked, decoded, reenc>>
    /\ ctor' = NoCall
    /\ UNCHANGED walks

\* the caller builds an Fp (in a Tc) or a Cmd (in an Entry) from a character
\* and adds it to the innermost list if the constructor returned Ok
FromChar ==
    /\ pc = "build"
    /\ Room
    /\ CurLevel \in {"tc", "item"}
    /\ \E c \in Chars :
          LET fn == IF CurLevel = "tc" THEN "fp_from_char" ELSE "cmd_from_char"
              r == IF CurLevel = "tc" THEN fp_from_char(c) ELSE cmd_from_char(c)
          IN /\ ctor' = [fn |-> fn, c |-> c, res |-> r]
             /\ IF r.ok
                THEN /\ Push(r.val)
                     /\ nodes' = nodes + 1
                ELSE UNCHANGED <<opts, stack, nodes>>
    /\ UNCHANGED <<pc, wire, mutated, panicked, decoded, reenc, walks>>

\* the caller starts a Tc, a Schedule or an Entry
Open ==
    /\ pc = "build"
    /\ Room
    /\ \E tag \in Containers(CurLevel) :
          stack' = Append(stack, [tag |-> tag, items |-> <<>>])
    /\ nodes' = nodes + 1
    /\ UNCHANGED <<opts, pc, wire, mutated, panicked, decoded, reenc>>
    /\ ctor' = NoCall
    /\ UNCHANGED walks

\* the caller finishes the innermost container
Close ==
    /\ pc = "build"
    /\ stack # <<>>
    /\ LET top == stack[Len(stack)]
           v == Container(top.tag, top.items)
           below == SubSeq(stack, 1, Len(stack) - 1)
       IN IF below = <<>>
          THEN /\ opts' = Append(opts, v)
               /\ stack' = <<>>
          ELSE /\ stack' = [below EXCEPT ![Len(below)].items = Append(@, v)]
               /\ UNCHANGED opts
    /\ UNCHANGED <<nodes, pc, wire, mutated, panicked, decoded, reenc>>
    /\ ctor' = NoCall
    /\ UNCHANGED walks

\* let mut buf = vec![_; list.buffer_len()]; list.emit(&mut buf), the
\* buffer's bytes before the call marked Unwritten
EmitList(list) ==
    LET n == Slice_buffer_len("opt", list)
    IN Slice_emit("opt", list, Buffer(FALSE, [i \in 1..n |-> Unwritten]), 0, n)

\* the walk of the options payload: TcQdiscTaprioOption::parse of each record
ParseOptions(payload) == ParseNlas("opt", NlasIterator(payload))

\* the option list is emitted
Emit ==
    /\ pc = "build"
    /\ stack = <<>>
    /\ opts # <<>>
    /\ LET r == EmitList(opts)
       IN /\ wire' = r.buf
          /\ panicked' = r.panic
          /\ pc' = IF r.panic THEN "panic" ELSE "emitted"
    /\ UNCHANGED <<opts, stack, nodes, mutated, decoded, reenc>>
    /\ ctor' = NoCall
    /\ UNCHANGED walks

\* one byte of the stream arrives changed
Corrupt ==
    /\ pc = "emitted"
    /\ ~mutated
    /\ Len(wire) <= MaxCorruptLen
    /\ \E i \in 1..Len(wire) : \E b \in CorruptBytes(wire[i]) :
          /\ wire[i] # b
          /\ wire' = [wire EXCEPT ![i] = b]
    /\ mutated' = TRUE
    /\ UNCHANGED <<opts, stack, nodes, pc, panicked, decoded, reenc>>
    /\ ctor' = NoCall
    /\ UNCHANGED walks

\* the stream arrives cut short
Truncate ==
    /\ pc = "emitted"
    /\ ~mutated
    /\ \E k \in 1..3 :
          /\ k <= Len(wire)
          /\ wire' = SubSeq(wire, 1, Len(wire) - k)
    /\ mutated' = TRUE
    /\ UNCHANGED <<opts, stack, nodes, pc, panicked, decoded, reenc>>
    /\ ctor' = NoCall
    /\ UNCHANGED walks

\* the stream is decoded
Parse ==
    /\ pc = "emitted"
    /\ decoded' = ParseOptions(wire)
    /\ pc' = "parsed"
    /\ UNCHANGED <<opts, stack, nodes, wire, mutated, panicked, reenc>>
    /\ ctor' = NoCall
    /\ UNCHANGED walks

\* the decoded list is emitted again
ReEmit ==
    /\ pc = "parsed"
    /\ decoded.ok
    /\ LET r == EmitList(decoded.val)
       IN /\ reenc' = r.buf
          /\ panicked' = r.panic
          /\ pc' = IF r.panic THEN "panic" ELSE "done"
    /\ UNCHANGED <<opts, stack, nodes, wire, mutated, decoded>>
    /\ ctor' = NoCall
    /\ UNCHANGED walks

Next ==
    \/ AddLeaf \/ FromChar \/ Open \/ Close
    \/ Emit \/ Corrupt \/ Truncate \/ Parse \/ ReEmit

Spec == Init /\ [][Next]_vars

----------------------------------------------------------------------------
(* The decode of one buffer, step by step.  walks holds the NlasIterator   *)
(* of every list walk in progress, outermost first: its buffer, its        *)
(* position and the level of its records.  One step is one call of next()  *)
(* on the innermost iterator and what the loop body does with the item.    *)

\* the 4-byte words buffers are put together from: headers of empty,
\* nested, short and over-long records, and value bytes
Words ==
    { <<0, 0, 0, 0>>,
      <<4, 0, 4, 0>>,
      <<5, 0, 2, 0>>,
      <<8, 0, 1, 0>>,
      <<8, 0, 5, 0>>,
      <<8, 0, 12, 128>>,
      <<12, 0, 1, 0>>,
      <<16, 0, 2, 128>> }

\* the bytes a buffer may end with after its last whole word
Tails == { <<>>, <<4>>, <<4, 0, 4>> }

RECURSIVE Flatten(_)
Flatten(ws) == IF ws = <<>> THEN <<>> ELSE Head(ws) \o Flatten(Tail(ws))

\* the buffers handed to the decode
Buffers ==
    { Flatten(ws) \o t :
        ws \in UNION { [1..n -> Words] : n \in 0..MaxWords }, t \in Tails }

\* NlasIterator::new(payload) for records of level lvl
Iterator(buffer, lvl) == [buffer |-> buffer, position |-> 0, lvl |-> lvl]

\* the innermost iterator and what is left of its buffer
Cur == walks[Len(walks)]

Rest == SubSeq(Cur.buffer, Cur.position + 1, Len(Cur.buffer))

\* the variant whose parse walks the value of a record of this kind, else ""
WalkedTag(lvl, kind) ==
    CASE lvl = "opt" /\ kind = TCA_TAPRIO_ATTR_TC_ENTRY -> "Tc"
      [] lvl = "opt" /\ kind = TCA_TAPRIO_ATTR_SCHED_ENTRY_LIST -> "Schedule"
      [] lvl = "sched" /\ kind = TCA_TAPRIO_SCHED_ENTRY -> "Entry"
      [] OTHER -> ""

WalkInit ==
    /\ opts = <<>>
    /\ stack = <<>>
    /\ nodes = 0
    /\ mutated = FALSE
    /\ panicked = FALSE
    /\ decoded = ErrList
    /\ reenc = <<>>
    /\ ctor = NoCall
    /\ wire \in Buffers
    /\ walks = <<Iterator(wire, "opt")>>
    /\ pc = "walk"

\* next() returns None: the for loop ends, and with it the innermost walk
WalkEnd ==
    /\ pc = "walk"
    /\ Cur.position >= Len(Cur.buffer)
    /\ walks' = SubSeq(walks, 1, Len(walks) - 1)
    /\ pc' = IF Len(walks) = 1 THEN "ok" ELSE "walk"
    /\ UNCHANGED <<opts, stack, nodes, wire, mutated, panicked, decoded,
                   reenc, ctor>>

\* next() returns Some(Err(_)): the ? operator returns the error
WalkErr ==
    /\ pc = "walk"
    /\ Cur.position < Len(Cur.buffer)
    /\ ~NlaBuffer_new_checked(Rest)
    /\ walks' = [walks EXCEPT ![Len(walks)].position = Len(Cur.buffer)]
    /\ pc' = "err"
    /\ UNCHANGED <<opts, stack, nodes, wire, mutated, panicked, decoded,
                   reenc, ctor>>

\* next() returns Some(Ok(nla)) and moves on by the aligned length; the loop
\* body parses nla: a container starts the walk of its value, anything else
\* is parsed on the spot, and an error there is returned
WalkItem ==
    /\ pc = "walk"
    /\ Cur.position < Len(Cur.buffer)
    /\ NlaBuffer_new_checked(Rest)
    /\ LET moved == [walks EXCEPT ![Len(walks)].position =
                        @ + nla_align(NlaBuffer_length(Rest))]
           tag == WalkedTag(Cur.lvl, NlaBuffer_kind(Rest))
       IN IF tag # ""
          THEN /\ walks' = Append(moved, Iterator(NlaBuffer_value(Rest),
                                                  ChildLevel(tag)))
               /\ pc' = "walk"
          ELSE /\ walks' = moved
               /\ pc' = IF Nla_parse(Cur.lvl, Rest).ok THEN "walk" ELSE "err"
    /\ UNCHANGED <<opts, stack, nodes, wire, mutated, panicked, decoded,
                   reenc, ctor>>

WalkNext == WalkEnd \/ WalkErr \/ WalkItem

\* parse is a synchronous call: it keeps taking steps until it returns
WalkSpec == WalkInit /\ [][WalkNext]_vars /\ WF_vars(WalkNext)

----------------------------------------------------------------------------
(* Vocabulary of the properties: the wire format read independently of the *)
(* decoder, and the nodes of a typed list.                                 *)

\* the kind codes each level recognizes
RecognizedKinds(lvl) ==
    CASE lvl = "opt" -> {1, 2, 3, 5, 8, 9, 10, 11, 12}
      [] lvl = "tc" -> {1, 2, 3}
      [] lvl = "sched" -> {1}
      [] lvl = "item" -> {2, 3, 4}

\* the fixed width of the scalar a kind code names at a level, else 0
ScalarWidth(lvl, code) ==
    CASE lvl = "opt" /\ code \in {5, 10, 11} -> 4
      [] lvl = "opt" /\ code \in {3, 8, 9} -> 8
      [] lvl = "tc" /\ code \in {1, 2, 3} -> 4
      [] lvl = "item" /\ code = 2 -> 1
      [] lvl = "item" /\ code \in {3, 4} -> 4
      [] OTHER -> 0

\* the level of the TLV stream a kind code holds at a level, else ""
NestedLevel(lvl, code) ==
    CASE lvl = "opt" /\ code = 12 -> "tc"
      [] lvl = "opt" /\ code = 2 -> "sched"
      [] lvl = "sched" /\ code = 1 -> "item"
      [] OTHER -> ""

\* the kind code of a raw kind: its low 14 bits
Code(rawkind) == rawkind % 16384

RoundUp4(n) == n + ((4 - (n % 4)) % 4)

\* The records of a TLV stream b, in order: start (offset of the header),
\* kind (all 16 bits), length (as declared), value, pad (the bytes after the
\* value up to the 4-byte boundary, as far as b has them).  A header that is
\* cut short or declares a length below 4 or beyond the end of b ends the
\* list with a record that is not ok.
RECURSIVE RecordsFrom(_, _)
RecordsFrom(b, start) ==
    IF start >= Len(b) THEN <<>>
    ELSE IF Len(b) - start < 4
    THEN <<[ok |-> FALSE, start |-> start, kind |-> 0, length |-> 0,
            value |-> <<>>, pad |-> <<>>]>>
    ELSE LET length == b[start + 1] + 256 * b[start + 2]
             kind == b[start + 3] + 256 * b[start + 4]
             end == start + RoundUp4(length)
         IN IF length < 4 \/ start + length > Len(b)
            THEN <<[ok |-> FALSE, start |-> start, kind |-> kind,
                    length |-> length, value |-> <<>>, pad |-> <<>>]>>
            ELSE <<[ok |-> TRUE, start |-> start, kind |-> kind,
                    length |-> length,
                    value |-> SubSeq(b, start + 5, start + length),
                    pad |-> SubSeq(b, start + length + 1,
                                   IF end < Len(b) THEN end ELSE Len(b))]>>
                 \o RecordsFrom(b, end)

Records(b) == RecordsFrom(b, 0)

\* the container variants
ContainerTags == {"Tc", "Schedule", "Entry"}

\* every attribute of a typed list, at every depth, with its level
RECURSIVE NodesOf(_, _)
NodesOf(lvl, nlas) ==
    UNION { {<<lvl, nlas[i]>>}
            \cup (IF nlas[i].tag \in ContainerTags
                  THEN NodesOf(ChildLevel(nlas[i].tag), nlas[i].items)
                  ELSE {}) : i \in 1..Len(nlas) }

\* a typed list a decode can yield: no Other carries a kind code that its
\* level recognizes
Valid(nlas) ==
    \A n \in NodesOf("opt", nlas) :
        n[2].tag = "Other" => Code(n[2].kind) \notin RecognizedKinds(n[1])

Emitted == pc \in {"emitted", "parsed", "done"}

Decoded == pc \in {"parsed", "done"}

----------------------------------------------------------------------------
(* C1  Round trip: emitting a valid option list (scalars, Priomap, Tc and  *)
(* Schedule lists, Other of unrecognized kinds) into a buffer of           *)
(* buffer_len bytes and decoding that buffer yields the same list.         *)

C1_RoundTrip ==
    (Decoded /\ ~mutated /\ Valid(opts)) => decoded = Ok(opts)

\* a decoded list of a Priomap and a Schedule with a non-empty Entry
C1_Witness ==
    /\ Decoded /\ ~mutated /\ Valid(opts)
    /\ Len(opts) = 2
    /\ opts[1].tag = "Priomap"
    /\ opts[2].tag = "Schedule"
    /\ Len(opts[2].items) = 1
    /\ opts[2].items[1].tag = "Entry"
    /\ opts[2].items[1].items # <<>>

----------------------------------------------------------------------------
(* C2  Byte-identical re-encode.  As claimed: every stream that decodes    *)
(* successfully is reproduced byte for byte by emitting the decoded list.  *)

C2_EveryStreamReencodes ==
    pc = "done" =>
        /\ Slice_buffer_len("opt", decoded.val) = Len(wire)
        /\ reenc = wire

\* the kind, flag bits included, that kind() gives the variant of a code
CanonicalKind(lvl, code) ==
    IF lvl = "opt" /\ code \in {2, 12} THEN code + 32768 ELSE code

\* a stream in the form emit writes: every record, at every level, has its
\* padding, all zero; a recognized code carries the flag bits of kind();
\* a Priomap value is 82 bytes
RECURSIVE Canonical(_, _)
Canonical(lvl, b) ==
    \A i \in 1..Len(Records(b)) :
        LET r == Records(b)[i]
            code == Code(r.kind)
        IN r.ok =>
             /\ Len(r.pad) = RoundUp4(r.length) - r.length
             /\ \A j \in 1..Len(r.pad) : r.pad[j] = 0
             /\ (code \in RecognizedKinds(lvl)
                    => r.kind = CanonicalKind(lvl, code))
             /\ ((lvl = "opt" /\ code = 1) => Len(r.value) = 82)
             /\ (NestedLevel(lvl, code) # ""
                    => Canonical(NestedLevel(lvl, code), r.value))

(* C2 as amended: a stream in canonical form that decodes successfully to  *)
(* a list L has length buffer_len(L) and is reproduced byte for byte by    *)
(* emitting L.                                                             *)
C2_CanonicalReencodes ==
    (pc = "done" /\ Canonical("opt", wire)) =>
        /\ Slice_buffer_len("opt", decoded.val) = Len(wire)
        /\ reenc = wire

\* a received stream, changed on the way and still canonical, with a
\* Schedule holding an Entry with items
C2_Witness ==
    /\ pc = "done" /\ mutated /\ Canonical("opt", wire)
    /\ decoded.val[1].tag = "Schedule"
    /\ decoded.val[1].items # <<>>
    /\ decoded.val[1].items[1].tag = "Entry"
    /\ decoded.val[1].items[1].items # <<>>

----------------------------------------------------------------------------
(* C3  Unknown-kind fidelity: decoding a stream and emitting the result    *)
(* reproduces, at every nesting level, each record of an unrecognized kind *)
(* code: its kind with the flag bits, its unpadded length, its value.      *)

RECURSIVE UnknownKept(_, _, _)
UnknownKept(lvl, a, b) ==
    LET ra == Records(a)
        rb == Records(b)
    IN /\ Len(ra) = Len(rb)
       /\ \A i \in 1..Len(ra) :
            LET code == Code(ra[i].kind)
            IN IF code \notin RecognizedKinds(lvl)
               THEN /\ rb[i].ok
                    /\ rb[i].kind = ra[i].kind
                    /\ rb[i].length = ra[i].length
                    /\ rb[i].value = ra[i].value
               ELSE NestedLevel(lvl, code) # ""
                       => UnknownKept(NestedLevel(lvl, code),
                                      ra[i].value, rb[i].value)

C3_UnknownKindFidelity == pc = "done" => UnknownKept("opt", wire, reenc)

\* a re-emitted stream with a flagged unknown kind at the top level and an
\* unknown kind inside a Tc container
C3_Witness ==
    /\ pc = "done"
    /\ Len(decoded.val) = 2
    /\ decoded.val[1] = Other(7 + NLA_F_NESTED, Run(1, 3))
    /\ decoded.val[2].tag = "Tc"
    /\ decoded.val[2].items # <<>>
    /\ decoded.val[2].items[1].tag = "Other"

----------------------------------------------------------------------------
(* C4  An unrecognized kind code is never a decode error: in a stream with *)
(* no other fault (every header whole, every recognized scalar of its      *)
(* width, every Priomap of at least 82 bytes) decoding succeeds, yields    *)
(* one value per record, and a record of an unrecognized code becomes the  *)
(* level's Other with the record's kind and value, of any length.          *)

RECURSIVE NoFault(_, _)
NoFault(lvl, b) ==
    \A i \in 1..Len(Records(b)) :
        LET r == Records(b)[i]
            code == Code(r.kind)
        IN /\ r.ok
           /\ (ScalarWidth(lvl, code) # 0
                  => Len(r.value) = ScalarWidth(lvl, code))
           /\ ((lvl = "opt" /\ code = 1) => Len(r.value) >= 82)
           /\ (NestedLevel(lvl, code) # ""
                  => NoFault(NestedLevel(lvl, code), r.value))

RECURSIVE OthersAt(_, _, _)
OthersAt(lvl, b, vals) ==
    /\ Len(vals) = Len(Records(b))
    /\ \A i \in 1..Len(vals) :
         LET r == Records(b)[i]
             code == Code(r.kind)
         IN IF code \notin RecognizedKinds(lvl)
            THEN vals[i] = Other(r.kind, r.value)
            ELSE NestedLevel(lvl, code) # ""
                    => OthersAt(NestedLevel(lvl, code), r.value, vals[i].items)

C4_UnknownKindNeverFails ==
    (Decoded /\ NoFault("opt", wire)) =>
        /\ decoded.ok
        /\ OthersAt("opt", wire, decoded.val)

\* an unknown kind with an empty value decoded first, then a Tc whose first
\* child is an unknown kind with an empty value, followed by another child
C4_Witness ==
    /\ Decoded /\ NoFault("opt", wire) /\ decoded.ok
    /\ Len(decoded.val) = 2
    /\ decoded.val[1] = Other(4, <<>>)
    /\ decoded.val[2].tag = "Tc"
    /\ Len(decoded.val[2].items) = 2
    /\ decoded.val[2].items[1] = Other(12, <<>>)

----------------------------------------------------------------------------
(* C5  Scalar width check: a stream holding, at any level, a record of a   *)
(* recognized scalar kind whose value is shorter or longer than the        *)
(* scalar's width (4, 8, or 1 for Cmd) fails to decode.                    *)

RECURSIVE HasOffWidth(_, _)
HasOffWidth(lvl, b) ==
    \E i \in 1..Len(Records(b)) :
        LET r == Records(b)[i]
            code == Code(r.kind)
        IN /\ r.ok
           /\ \/ /\ ScalarWidth(lvl, code) # 0
                 /\ Len(r.value) # ScalarWidth(lvl, code)
              \/ /\ NestedLevel(lvl, code) # ""
                 /\ HasOffWidth(NestedLevel(lvl, code), r.value)

C5_ScalarWidthCheck == (Decoded /\ HasOffWidth("opt", wire)) => ~decoded.ok

\* a Schedule of one Entry of one Cmd whose declared length arrived as 6:
\* a Cmd value of two bytes
C5_Witness ==
    /\ Decoded /\ mutated /\ HasOffWidth("opt", wire)
    /\ opts = <<Container("Schedule",
                  <<Container("Entry", <<Scalar("Cmd", <<0>>)>>)>>)>>
    /\ Len(wire) = 16
    /\ wire[9] = 6

----------------------------------------------------------------------------
(* The Priomap record as its 82 bytes lay it out: num_tc at 0, prio_tc_map *)
(* at 1..17, hw at 17, count at 18..50 and offset at 50..82, two bytes a   *)
(* value, low byte first.                                                  *)

PriomapAt(v) ==
    [num_tc |-> v[1],
     prio_tc_map |-> [k \in 1..16 |-> v[1 + k]],
     hw |-> v[18],
     count |-> [k \in 1..16 |-> v[17 + 2 * k] + 256 * v[18 + 2 * k]],
     offset |-> [k \in 1..16 |-> v[49 + 2 * k] + 256 * v[50 + 2 * k]]]

\* the top-level records of the received stream that carry kind code 1
PriomapRecords ==
    { i \in 1..Len(Records(wire)) :
        Records(wire)[i].ok /\ Code(Records(wire)[i].kind) = 1 }

(* C6  Fixed-record boundary: a Priomap value shorter than 82 bytes fails  *)
(* the decode; a value of exactly 82 bytes decodes (alone in the stream:   *)
(* always) to the fields at their fixed offsets, and emitting that         *)
(* Priomap writes the same 82 bytes.                                       *)
C6_PriomapBoundary ==
    Decoded =>
        \A i \in PriomapRecords :
            LET v == Records(wire)[i].value
            IN /\ Len(v) < 82 => ~decoded.ok
               /\ (Len(v) = 82 /\ Len(Records(wire)) = 1) => decoded.ok
               /\ (Len(v) = 82 /\ decoded.ok)
                     => /\ decoded.val[i] = Priomap(PriomapAt(v))
                        /\ pc = "done" => Records(reenc)[i].value = v

\* an 82-byte Priomap of mixed field values decoded and emitted again
C6_Witness ==
    /\ pc = "done"
    /\ 1 \in PriomapRecords
    /\ Len(Records(wire)[1].value) = 82
    /\ decoded.val[1] = Priomap(PriomapMixed)
    /\ Records(reenc)[1].value = Records(wire)[1].value

----------------------------------------------------------------------------
(* C7  As claimed: a Priomap value that is not exactly 82 bytes, longer as *)
(* well as shorter, fails the decode.                                      *)

C7_NotExactly82Fails ==
    Decoded =>
        \A i \in PriomapRecords :
            Len(Records(wire)[i].value) # 82 => ~decoded.ok

(* C7 as amended: a Priomap value shorter than 82 bytes fails the decode;  *)
(* a longer value does not: it decodes (alone in the stream: always) to    *)
(* the fields of its first 82 bytes, the rest is ignored.                  *)
C7_ShorterFailsLongerDecodes ==
    Decoded =>
        \A i \in PriomapRecords :
            LET v == Records(wire)[i].value
            IN /\ Len(v) < 82 => ~decoded.ok
               /\ (Len(v) > 82 /\ Len(Records(wire)) = 1) => decoded.ok
               /\ (Len(v) > 82 /\ decoded.ok)
                     => decoded.val[i] = Priomap(PriomapAt(SubSeq(v, 1, 82)))

\* a Priomap value of 84 bytes, decoded
C7_Witness ==
    /\ Decoded /\ decoded.ok
    /\ 1 \in PriomapRecords
    /\ Len(Records(wire)[1].value) = 84
    /\ decoded.val[1].tag = "Priomap"

----------------------------------------------------------------------------
(* C8  Nested flag.  As claimed: for every recognized variant at every     *)
(* level, kind() has bit 0x8000 set exactly when the value is a TLV        *)
(* stream: Tc, Schedule and Entry.                                         *)

\* the attributes of the emitted list that are not Other
RecognizedNodes == { n \in NodesOf("opt", opts) : n[2].tag # "Other" }

\* bit 0x8000 of a kind
NestedBit(kind) == (kind \div 32768) % 2 = 1

C8_NestedIffTlvStream ==
    Emitted =>
        \A n \in RecognizedNodes :
            NestedBit(Nla_kind(n[1], n[2])) <=> n[2].tag \in ContainerTags

(* C8 as amended: kind() has bit 0x8000 set for the top-level Tc and       *)
(* Schedule and clear for every other recognized variant: the scalars,     *)
(* Priomap, and the Schedule's Entry container, whose value is a TLV       *)
(* stream all the same.                                                    *)
C8_NestedOnTcAndSchedule ==
    Emitted =>
        \A n \in RecognizedNodes :
            NestedBit(Nla_kind(n[1], n[2])) <=> n[2].tag \in {"Tc", "Schedule"}

\* an emitted list with a Tc, and a Schedule holding an Entry
C8_Witness ==
    /\ Emitted
    /\ Len(opts) = 2
    /\ opts[1].tag = "Tc"
    /\ opts[2].tag = "Schedule"
    /\ opts[2].items # <<>>
    /\ opts[2].items[1].tag = "Entry"

----------------------------------------------------------------------------
(* C9  Length/write agreement: emit_value of every attribute at every      *)
(* level, given a slice of exactly value_len() bytes, writes every byte of *)
(* it and stays inside it; emitting a list into buffer_len bytes leaves no *)
(* byte unwritten and never panics; Cmd has value_len 1; a container's     *)
(* value_len is the sum of 4 + value_len rounded up to 4 of its children.  *)

\* emit_value into a fresh slice of value_len() bytes
ValueWritten(lvl, v) ==
    LET vl == Nla_value_len(lvl, v)
    IN Nla_emit_value(lvl, v, Buffer(FALSE, [i \in 1..vl |-> Unwritten]), 0, vl)

RECURSIVE SumPadded(_, _)
SumPadded(lvl, nlas) ==
    IF nlas = <<>> THEN 0
    ELSE RoundUp4(4 + Nla_value_len(lvl, Head(nlas)))
         + SumPadded(lvl, Tail(nlas))

C9_LengthWriteAgreement ==
    /\ pc # "panic"
    /\ (Emitted /\ ~mutated) => \A i \in 1..Len(wire) : wire[i] # Unwritten
    /\ (pc = "emitted" /\ ~mutated) =>
          /\ \A n \in NodesOf("opt", opts) :
                /\ ~ValueWritten(n[1], n[2]).panic
                /\ \A i \in 1..Len(ValueWritten(n[1], n[2]).buf) :
                      ValueWritten(n[1], n[2]).buf[i] # Unwritten
                /\ n[2].tag = "Cmd" => Nla_value_len(n[1], n[2]) = 1
                /\ n[2].tag \in ContainerTags =>
                      Nla_value_len(n[1], n[2])
                         = SumPadded(ChildLevel(n[2].tag), n[2].items)
    /\ pc = "done" => \A i \in 1..Len(reenc) : reenc[i] # Unwritten

\* an emitted Schedule of an Entry of a Cmd and a GateMask
C9_Witness ==
    /\ pc = "emitted" /\ ~mutated
    /\ opts = <<Container("Schedule",
                  <<Container("Entry", <<Scalar("Cmd", <<0>>),
                                         Scalar("GateMask", U32(3))>>)>>)>>
    /\ Len(wire) = 24

----------------------------------------------------------------------------
(* C10  Alignment: in an emitted stream, at every nesting level, each      *)
(* record starts at a multiple of 4, declares the length 4 + value_len,    *)
(* occupies that length rounded up to a multiple of 4, and the bytes after *)
(* its value up to the next record are zero.                               *)

\* the stream b, whose first byte is byte base of the buffer, holds the
\* records of the list nlas
RECURSIVE Aligned(_, _, _, _)
Aligned(lvl, nlas, b, base) ==
    LET recs == Records(b)
    IN /\ Len(recs) = Len(nlas)
       /\ SumPadded(lvl, nlas) = Len(b)
       /\ \A i \in 1..Len(recs) :
            LET r == recs[i]
                vl == Nla_value_len(lvl, nlas[i])
            IN /\ r.ok
               /\ (base + r.start) % 4 = 0
               /\ r.length = 4 + vl
               /\ Len(r.pad) = RoundUp4(4 + vl) - (4 + vl)
               /\ \A j \in 1..Len(r.pad) : r.pad[j] = 0
               /\ i < Len(recs) =>
                     recs[i + 1].start = r.start + RoundUp4(4 + vl)
               /\ nlas[i].tag \in ContainerTags =>
                     Aligned(ChildLevel(nlas[i].tag), nlas[i].items,
                             r.value, base + r.start + 4)

C10_Alignment == (Emitted /\ ~mutated) => Aligned("opt", opts, wire, 0)

\* Priomap: length 86 in 88 bytes; then a Schedule of an Entry of a Cmd:
\* length 5 in 8 bytes, the last three zero
C10_Witness ==
    /\ Emitted /\ ~mutated
    /\ Len(opts) = 2
    /\ opts[1].tag = "Priomap"
    /\ opts[2] = Container("Schedule",
                    <<Container("Entry", <<Scalar("Cmd", <<0>>)>>)>>)
    /\ Len(wire) = 104
    /\ wire[1] = 86 /\ wire[87] = 0 /\ wire[88] = 0
    /\ wire[97] = 5
    /\ wire[102] = 0 /\ wire[103] = 0 /\ wire[104] = 0

----------------------------------------------------------------------------
(* C11  Order and multiplicity: at every level the decoded list has one    *)
(* element per record of the stream, the i-th being the decoding of the    *)
(* i-th record; an emitted stream has one record per list element, the     *)
(* i-th being the encoding of the i-th element; repeats are all kept.      *)

\* the bytes of record r of stream b: header and value
RecordBytes(b, r) == SubSeq(b, r.start + 1, r.start + r.length)

\* the bytes record r occupies in stream b, padding included
RecordSlot(b, r) == SubSeq(b, r.start + 1, r.start + RoundUp4(r.length))

\* one attribute emitted alone into a buffer of its buffer_len
Encoding(lvl, v) ==
    LET n == Nla_buffer_len(lvl, v)
    IN Nla_emit(lvl, v, Buffer(FALSE, [i \in 1..n |-> Unwritten]), 0, n).buf

RECURSIVE DecodedInOrder(_, _, _)
DecodedInOrder(lvl, vals, b) ==
    LET recs == Records(b)
    IN /\ Len(vals) = Len(recs)
       /\ \A i \in 1..Len(recs) :
            /\ recs[i].ok
            /\ Nla_parse(lvl, RecordBytes(b, recs[i])) = Ok(vals[i])
            /\ vals[i].tag \in ContainerTags =>
                  DecodedInOrder(ChildLevel(vals[i].tag), vals[i].items,
                                 recs[i].value)

RECURSIVE EmittedInOrder(_, _, _)
EmittedInOrder(lvl, vals, b) ==
    LET recs == Records(b)
    IN /\ Len(recs) = Len(vals)
       /\ \A i \in 1..Len(vals) :
            /\ recs[i].ok
            /\ RecordSlot(b, recs[i]) = Encoding(lvl, vals[i])
            /\ vals[i].tag \in ContainerTags =>
                  EmittedInOrder(ChildLevel(vals[i].tag), vals[i].items,
                                 recs[i].value)

C11_OrderAndMultiplicity ==
    /\ (Decoded /\ decoded.ok) => DecodedInOrder("opt", decoded.val, wire)
    /\ (Emitted /\ ~mutated) => EmittedInOrder("opt", opts, wire)
    /\ pc = "done" => EmittedInOrder("opt", decoded.val, reenc)

\* a Tc of an Fp and two equal Index records, decoded and emitted again
C11_Witness ==
    /\ pc = "done" /\ ~mutated
    /\ decoded.val = <<Container("Tc", <<Scalar("Fp", U32(2)),
                                        Scalar("Index", U32(1)),
                                        Scalar("Index", U32(1))>>)>>
    /\ Len(Records(Records(reenc)[1].value)) = 3

----------------------------------------------------------------------------
(* C12  Constructor validation: fp_from_char returns Fp(1) for 'E', Fp(2)  *)
(* for 'P' and an error for every other character, lowercase 'e' and 'p'   *)
(* included; cmd_from_char returns Cmd(0) for 'S' and an error for every   *)
(* other character.                                                        *)

\* the innermost list under construction
InnerList == IF stack = <<>> THEN opts ELSE stack[Len(stack)].items

C12_ConstructorValidation ==
    /\ ctor.fn = "fp_from_char" =>
          /\ ctor.res.ok <=> ctor.c \in {"E", "P"}
          /\ ctor.res.ok =>
                /\ ctor.res.val.tag = "Fp"
                /\ LeBytes(ctor.res.val.num)
                      = <<(IF ctor.c = "E" THEN 1 ELSE 2), 0, 0, 0>>
    /\ ctor.fn = "cmd_from_char" =>
          /\ ctor.res.ok <=> ctor.c = "S"
          /\ ctor.res.ok =>
                /\ ctor.res.val.tag = "Cmd"
                /\ ctor.res.val.num = <<0>>
    /\ (ctor.fn # "" /\ ctor.res.ok) =>
          InnerList[Len(InnerList)] = ctor.res.val

\* fp_from_char('e') has returned an error and the Tc under construction
\* already holds the Fp(1) of an earlier fp_from_char('E')
C12_Witness ==
    /\ ctor.fn = "fp_from_char" /\ ctor.c = "e" /\ ~ctor.res.ok
    /\ stack # <<>>
    /\ InnerList = <<Scalar("Fp", U32(1))>>

----------------------------------------------------------------------------
(* C13  Structural malformation: the decode of a Tc, Schedule or Entry     *)
(* container is an error whenever the walk of its value meets a child      *)
(* record with fewer than 4 header bytes left, a declared length below 4,  *)
(* or a declared length beyond the end of the container's value.           *)

\* how the walk of stream b ends: "" at the end of b, else what is wrong
\* with the record it stops at
Malformation(b) ==
    IF Records(b) = <<>> \/ Records(b)[Len(Records(b))].ok THEN ""
    ELSE LET r == Records(b)[Len(Records(b))]
         IN IF Len(b) - r.start < 4 THEN "header"
            ELSE IF r.length < 4 THEN "short"
            ELSE "long"

\* the container records of stream b, at any depth, whose own walk ends in
\* malformation m: <<level, record bytes>>
RECURSIVE MalformedContainers(_, _, _)
MalformedContainers(lvl, b, m) ==
    UNION { IF Records(b)[i].ok
               /\ NestedLevel(lvl, Code(Records(b)[i].kind)) # ""
            THEN (IF Malformation(Records(b)[i].value) = m
                  THEN {<<lvl, RecordBytes(b, Records(b)[i])>>} ELSE {})
                 \cup MalformedContainers(
                         NestedLevel(lvl, Code(Records(b)[i].kind)),
                         Records(b)[i].value, m)
            ELSE {} : i \in 1..Len(Records(b)) }

C13_MalformedContainerFails ==
    Decoded =>
        \A m \in {"header", "short", "long"} :
            \A c \in MalformedContainers("opt", wire, m) :
                /\ ~Nla_parse(c[1], c[2]).ok
                /\ ~decoded.ok

\* a Schedule whose Entry holds an item declaring 5 bytes where 4 are left
C13_Witness ==
    /\ pc = "parsed" /\ ~decoded.ok /\ ~mutated
    /\ opts = <<Other(TCA_TAPRIO_ATTR_SCHED_ENTRY_LIST + NLA_F_NESTED,
                      <<8, 0, 1, 0, 5, 0, 2, 0>>)>>
    /\ MalformedContainers("opt", wire, "long")
          = {<<"sched", <<8, 0, 1, 0, 5, 0, 2, 0>>>>}

----------------------------------------------------------------------------
(* C14  Tc cardinality.  As claimed: every Tc option that decoding         *)
(* produces holds exactly three sub-attributes: an Index, a MaxSdu and an  *)
(* Fp in some order.                                                       *)

C14_TcHoldsThree ==
    (Decoded /\ decoded.ok) =>
        \A i \in 1..Len(decoded.val) :
            decoded.val[i].tag = "Tc" =>
                /\ Len(decoded.val[i].items) = 3
                /\ { decoded.val[i].items[j].tag : j \in 1..3 }
                      = {"Index", "MaxSdu", "Fp"}

\* the top-level records of the received stream with kind code 12 whose
\* value is a well-formed TLV stream with every scalar of its width
CleanTcRecords ==
    { i \in 1..Len(Records(wire)) :
        /\ Records(wire)[i].ok
        /\ Code(Records(wire)[i].kind) = 12
        /\ Malformation(Records(wire)[i].value) = ""
        /\ ~HasOffWidth("tc", Records(wire)[i].value) }

(* C14 as amended: the value of a Tc container is a TLV stream of any      *)
(* number of sub-attributes, none included, each an Index, a MaxSdu, an Fp *)
(* or an Other, in any order and with repeats; it decodes to a Tc holding  *)
(* one sub-attribute per record.                                           *)
C14_TcHoldsItsRecords ==
    Decoded =>
        \A i \in CleanTcRecords :
            LET r == Records(wire)[i]
                tc == Nla_parse("opt", RecordBytes(wire, r))
            IN /\ tc.ok
               /\ tc.val.tag = "Tc"
               /\ Len(tc.val.items) = Len(Records(r.value))
               /\ \A j \in 1..Len(tc.val.items) :
                     tc.val.items[j].tag \in {"Index", "MaxSdu", "Fp", "Other"}
               /\ decoded.ok => decoded.val[i] = tc.val

\* decoded: a Tc of two Index and nothing else, and a Tc of nothing
C14_Witness ==
    /\ Decoded /\ decoded.ok
    /\ CleanTcRecords = {1, 2}
    /\ decoded.val = <<Container("Tc", <<Scalar("Index", U32(1)),
                                        Scalar("Index", U32(1))>>),
                       Container("Tc", <<>>)>>

----------------------------------------------------------------------------
(* C15  Kind codes are scoped per level: a record decodes to the variant   *)
(* its code names at the level where it appears, and a code that only      *)
(* another level recognizes decodes to the Other of its own level.         *)

\* the variant a kind code names at a level
TagAt(lvl, code) ==
    CASE lvl = "opt" /\ code = 1 -> "Priomap"
      [] lvl = "opt" /\ code = 2 -> "Schedule"
      [] lvl = "opt" /\ code = 3 -> "Basetime"
      [] lvl = "opt" /\ code = 5 -> "ClockId"
      [] lvl = "opt" /\ code = 8 -> "Cycletime"
      [] lvl = "opt" /\ code = 9 -> "CycletimeExtension"
      [] lvl = "opt" /\ code = 10 -> "Flags"
      [] lvl = "opt" /\ code = 11 -> "TxtimeDelay"
      [] lvl = "opt" /\ code = 12 -> "Tc"
      [] lvl = "tc" /\ code = 1 -> "Index"
      [] lvl = "tc" /\ code = 2 -> "MaxSdu"
      [] lvl = "tc" /\ code = 3 -> "Fp"
      [] lvl = "sched" /\ code = 1 -> "Entry"
      [] lvl = "item" /\ code = 2 -> "Cmd"
      [] lvl = "item" /\ code = 3 -> "GateMask"
      [] lvl = "item" /\ code = 4 -> "Interval"
      [] OTHER -> "Other"

RECURSIVE Scoped(_, _)
Scoped(lvl, b) ==
    \A i \in 1..Len(Records(b)) :
        LET r == Records(b)[i]
            code == Code(r.kind)
            p == Nla_parse(lvl, RecordBytes(b, r))
        IN r.ok =>
             /\ p.ok => p.val.tag = TagAt(lvl, code)
             /\ TagAt(lvl, code) = "Other" =>
                   /\ p.ok
                   /\ p.val.kind = r.kind
                   /\ p.val.bytes = r.value
             /\ NestedLevel(lvl, code) # "" =>
                   Scoped(NestedLevel(lvl, code), r.value)

\* the variants of a typed list are those of their level
TagsOfLevel(nlas) ==
    \A n \in NodesOf("opt", nlas) :
        n[2].tag \in { TagAt(n[1], code) : code \in 0..12 }

C15_KindsScopedPerLevel ==
    Decoded =>
        /\ Scoped("opt", wire)
        /\ decoded.ok =>
              /\ TagsOfLevel(decoded.val)
              /\ \A i \in 1..Len(decoded.val) :
                    decoded.val[i].tag
                       = TagAt("opt", Code(Records(wire)[i].kind))

\* code 1 inside an Entry and code 4 at the top level, both decoded to Other
C15_Witness ==
    /\ Decoded /\ decoded.ok
    /\ decoded.val
          = <<Container("Schedule",
                 <<Container("Entry",
                      <<Other(TCA_TAPRIO_SCHED_ENTRY, <<>>)>>)>>),
              Other(4, <<>>)>>

----------------------------------------------------------------------------
(* C16  No value check on decode: an Fp record with any 4-byte value x     *)
(* decodes to Fp(x) and a Cmd record with any 1-byte value y decodes to    *)
(* Cmd(y), without error, and both encode to the same value bytes.         *)

\* the well-formed records of stream b at any depth: <<level, record bytes>>
RECURSIVE AllRecords(_, _)
AllRecords(lvl, b) ==
    UNION { IF Records(b)[i].ok
            THEN {<<lvl, RecordBytes(b, Records(b)[i])>>}
                 \cup (IF NestedLevel(lvl, Code(Records(b)[i].kind)) # ""
                       THEN AllRecords(
                               NestedLevel(lvl, Code(Records(b)[i].kind)),
                               Records(b)[i].value)
                       ELSE {})
            ELSE {} : i \in 1..Len(Records(b)) }

\* the value bytes of a record given as its bytes
ValueOf(rec) == SubSeq(rec, 5, Len(rec))

\* the Fp records with a 4-byte value and the Cmd records with a 1-byte
\* value of the received stream
FpRecords ==
    { c \in AllRecords("opt", wire) :
        c[1] = "tc" /\ Code(c[2][3] + 256 * c[2][4]) = 3 /\ Len(c[2]) = 8 }

CmdRecords ==
    { c \in AllRecords("opt", wire) :
        c[1] = "item" /\ Code(c[2][3] + 256 * c[2][4]) = 2 /\ Len(c[2]) = 5 }

C16_NoValueCheckOnDecode ==
    Decoded =>
        /\ \A c \in FpRecords :
              LET v == ValueOf(c[2])
                  x == <<v[3] + 256 * v[4], v[1] + 256 * v[2]>>
              IN /\ Nla_parse("tc", c[2]) = Ok(Scalar("Fp", x))
                 /\ ValueOf(Encoding("tc", Scalar("Fp", x))) = v
        /\ \A c \in CmdRecords :
              LET v == ValueOf(c[2])
              IN /\ Nla_parse("item", c[2]) = Ok(Scalar("Cmd", <<v[1]>>))
                 /\ SubSeq(Encoding("item", Scalar("Cmd", <<v[1]>>)), 5, 5) = v

\* an Fp whose value arrived as 255, decoded to Fp(255) and emitted again
C16_Witness ==
    /\ pc = "done" /\ mutated
    /\ decoded.val = <<Container("Tc", <<Scalar("Fp", U32(255))>>)>>
    /\ FpRecords # {}
    /\ reenc = wire

----------------------------------------------------------------------------
(* C17  Dispatch ignores the nested flag: a record of a recognized code    *)
(* decodes to the same variant whether or not bit 0x8000 of its kind is    *)
(* set on the wire, and is encoded again with the flag set for Tc and      *)
(* Schedule and clear for every other recognized variant.                  *)

\* the kind field of a record given as its bytes
KindOf(rec) == rec[3] + 256 * rec[4]

\* record bytes rec with bit 0x8000 of the kind set to flag
WithNested(rec, flag) ==
    [rec EXCEPT ![4] = (rec[4] % 128) + (IF flag THEN 128 ELSE 0)]

C17_DispatchIgnoresNestedFlag ==
    pc = "parsed" =>
        \A c \in AllRecords("opt", wire) :
            LET tag == TagAt(c[1], Code(KindOf(c[2])))
                p == Nla_parse(c[1], c[2])
            IN tag # "Other" =>
                 /\ Nla_parse(c[1], WithNested(c[2], TRUE)) = p
                 /\ Nla_parse(c[1], WithNested(c[2], FALSE)) = p
                 /\ p.ok =>
                       /\ p.val.tag = tag
                       /\ KindOf(Encoding(c[1], p.val))
                             = Code(KindOf(c[2]))
                               + (IF tag \in {"Tc", "Schedule"}
                                  THEN 32768 ELSE 0)

\* kind 0x800b decoded as TxtimeDelay and emitted as 0x000b; kind 0x000c
\* decoded as Tc and emitted as 0x800c
C17_Witness ==
    /\ pc = "done"
    /\ Len(wire) = 12 /\ Len(reenc) = 12
    /\ wire[3] = 11 /\ wire[4] = 128 /\ wire[11] = 12 /\ wire[12] = 0
    /\ decoded.val[1].tag = "TxtimeDelay"
    /\ decoded.val[2] = Container("Tc", <<>>)
    /\ reenc[3] = 11 /\ reenc[4] = 0 /\ reenc[11] = 12 /\ reenc[12] = 128

----------------------------------------------------------------------------
(* C18  Termination of decoding: the decode of any buffer, nested walks    *)
(* included, ends with a value or an error; every step of a walk moves its *)
(* position on by at least 4 bytes, ends the walk at the end of its        *)
(* buffer, or ends the decode with an error.                               *)

\* what a step of the decode does to the walk that takes it
StepAdvances ==
    pc = "walk" =>
        \/ pc' = "err"
        \/ /\ Len(walks') = Len(walks) - 1
           /\ Cur.position >= Len(Cur.buffer)
        \/ /\ Len(walks') >= Len(walks)
           /\ walks'[Len(walks)].position >= Cur.position + 4

C18_DecodeTerminates ==
    /\ [][StepAdvances]_vars
    /\ <>(pc \in {"ok", "err"})

\* the step-wise decode and parse agree on which buffers are an error
WalkAgrees ==
    pc \in {"ok", "err"} => ((pc = "ok") <=> ParseOptions(wire).ok)

\* the walk of an Entry inside a Schedule has met a record declaring length
\* 0 and the decode has ended with an error
C18_Witness ==
    /\ pc = "err"
    /\ wire = <<16, 0, 2, 128, 12, 0, 1, 0, 0, 0, 0, 0, 0, 0, 0, 0>>
    /\ Len(walks) = 3
    /\ walks[3].lvl = "item"
    /\ walks[3].buffer = <<0, 0, 0, 0, 0, 0, 0, 0>>
    /\ ~ParseOptions(wire).ok

====
